---- MODULE Spec2Model ----
(***************************************************************************)
(* HanziMaster flashcards: the review session of App (deck, current card,  *)
(* flip state, script mode, deferred index updates) and the deck ingestion *)
(* of DeckGenerator (content classifier, card normaliser, generation       *)
(* client), with the JSON export/import that connects them.                *)
(*                                                                         *)
(* Chinese text is written in ASCII transliteration ("nihao" for the word  *)
(* the spec writes in hanzi): the code never looks inside a string.        *)
(***************************************************************************)
EXTENDS Integers, Sequences, FiniteSets, TLC

VARIABLES
  deck,              \* App: useState<Deck | null>
  currentCardIndex,  \* App: useState(0)
  isFlipped,         \* App: useState(false)
  scriptMode,        \* App: 'simplified' | 'traditional'
  timers,            \* pending setTimeout callbacks of handleNext / handlePrev, oldest first
  isLoading,         \* DeckGenerator: useState(false)
  error,             \* DeckGenerator: useState<string | null>(null)
  mode,              \* DeckGenerator: useState<Mode>('manual'), the tab shown
  variant,           \* which DeckGenerator is built in: "processContent" or "processJsonContent"
  env,               \* process.env and the place the page runs in
  jobs,              \* ingestion actions in flight (file being read, generation awaited)
  now,               \* Date.now()
  download,          \* the file written by the last saveDeck, if any
  started,           \* number of ingestion actions started so far
  last,              \* record of the most recently finished ingestion action
  disk,              \* the files the user can pick in the file input
  run,               \* bookkeeping of the current sequence of same-direction navigation requests
  flips,             \* bookkeeping of the flips handled in a row
  toggles            \* bookkeeping of the script toggles handled in a row

vars == <<deck, currentCardIndex, isFlipped, scriptMode, timers, isLoading, error, mode,
          variant, env, jobs, now, download, started, last, disk, run, flips, toggles>>

-----------------------------------------------------------------------------
(* Bounds of the model.                                                    *)

MaxTimers == 2
MaxActions == 2
MaxNow == 1
MaxGenCards == 2

-----------------------------------------------------------------------------
(* JavaScript values.  Every value is a record [t, v]: t is the type tag,  *)
(* v the payload (a string for scalars, a sequence for arrays, a function  *)
(* from keys to values for objects).                                       *)

Undef == [t |-> "undef", v |-> ""]
Null == [t |-> "null", v |-> ""]
Str(s) == [t |-> "str", v |-> s]
Num(s) == [t |-> "num", v |-> s]
Bool(s) == [t |-> "bool", v |-> s]
Arr(s) == [t |-> "arr", v |-> s]
Obj(f) == [t |-> "obj", v |-> f]
EmptyObj == <<>>

\* o.k : undefined for a key the object does not have, and for a primitive.
\* (Reading a property of null or undefined throws; callers test Nullish first.)
Get(o, k) == IF o.t = "obj" /\ k \in DOMAIN o.v THEN o.v[k] ELSE Undef

Nullish(x) == x.t \in {"undef", "null"}

\* ToBoolean
Truthy(x) ==
  CASE x.t \in {"undef", "null"} -> FALSE
    [] x.t = "bool" -> x.v = "true"
    [] x.t = "num" -> x.v # "0"
    [] x.t = "str" -> x.v # ""
    [] OTHER -> TRUE

\* a || b
OrElse(a, b) == IF Truthy(a) THEN a ELSE b

\* { ...o } : the own properties of an object; a number, boolean, null or
\* undefined spreads to nothing.
Spread(o) == IF o.t = "obj" THEN o.v ELSE EmptyObj

\* { ...f, k: x }
With(f, k, x) == (k :> x) @@ f

-----------------------------------------------------------------------------
(* Text.  A string that is parsed or sent is a sequence of lexemes [k, v]: *)
(* the JSON punctuation, "str" (a quoted string literal with content v),   *)
(* "num", "lit" (true, false, null), "ws" (white space) and "raw" (any     *)
(* other run of characters, which no JSON text contains).                  *)

Lx(k, v) == [k |-> k, v |-> v]
LBrace == Lx("{", "")
RBrace == Lx("}", "")
LBrack == Lx("[", "")
RBrack == Lx("]", "")
Comma == Lx(",", "")
Colon == Lx(":", "")
NL == Lx("ws", "\n")
SP == Lx("ws", " ")

\* The order in which an object's keys are written.
KeyOrder == <<"title", "cards", "id", "simplified", "traditional", "pinyin",
              "english", "examples", "chinese", "note", "words">>

IsWs(l) == l.k = "ws"
NotWs(l) == l.k # "ws"

\* !content || !content.trim()
IsBlank(text) == \A i \in DOMAIN text : IsWs(text[i])

\* The characters of a string value as text.
TextOf(s) == IF s = "" THEN <<>> ELSE IF s \in {" ", "\n"} THEN <<Lx("ws", s)>> ELSE <<Lx("raw", s)>>

RECURSIVE JoinFrom(_, _)
JoinFrom(items, i) ==
  IF i > Len(items) THEN <<>>
  ELSE (IF i > 1 THEN <<NL>> ELSE <<>>) \o TextOf(items[i].v) \o JoinFrom(items, i + 1)

\* A join that writes the strings last to first.
JoinLinesReversed(items) == JoinFrom([i \in 1..Len(items) |-> items[Len(items) + 1 - i]], 1)

\* json.join('\n') of an array of strings
JoinLines(items) == JoinFrom(items, 1)

RECURSIVE Stringify(_), StringifyElems(_, _), StringifyMembers(_, _, _)
\* JSON.stringify(x, null, 2): a property whose value is undefined is left
\* out, an undefined array element is written null.
Stringify(x) ==
  CASE x.t = "str" -> <<Lx("str", x.v)>>
    [] x.t = "num" -> <<Lx("num", x.v)>>
    [] x.t = "bool" -> <<Lx("lit", x.v)>>
    [] x.t \in {"null", "undef"} -> <<Lx("lit", "null")>>
    [] x.t = "arr" ->
         IF x.v = <<>> THEN <<LBrack, RBrack>>
         ELSE <<LBrack, NL>> \o StringifyElems(x.v, 1) \o <<NL, RBrack>>
    [] x.t = "obj" ->
         LET Written(k) == k \in DOMAIN x.v /\ x.v[k].t # "undef"
             keys == SelectSeq(KeyOrder, Written)
         IN IF keys = <<>> THEN <<LBrace, RBrace>>
            ELSE <<LBrace, NL>> \o StringifyMembers(x.v, keys, 1) \o <<NL, RBrace>>

StringifyElems(s, i) ==
  IF i > Len(s) THEN <<>>
  ELSE (IF i > 1 THEN <<Comma, NL>> ELSE <<>>) \o Stringify(s[i]) \o StringifyElems(s, i + 1)

StringifyMembers(f, keys, i) ==
  IF i > Len(keys) THEN <<>>
  ELSE (IF i > 1 THEN <<Comma, NL>> ELSE <<>>)
       \o <<Lx("str", keys[i]), Colon, SP>> \o Stringify(f[keys[i]])
       \o StringifyMembers(f, keys, i + 1)

ParseFail == [ok |-> FALSE, val |-> Undef, rest |-> <<>>]
ParseOk(x, rest) == [ok |-> TRUE, val |-> x, rest |-> rest]

RECURSIVE ParseValue(_), ParseElems(_, _), ParseMembers(_, _)
\* One JSON value at the head of ts (white space already skipped).
ParseValue(ts) ==
  IF ts = <<>> THEN ParseFail
  ELSE LET h == Head(ts)
           r == Tail(ts)
       IN CASE h.k = "str" -> ParseOk(Str(h.v), r)
            [] h.k = "num" -> ParseOk(Num(h.v), r)
            [] h.k = "lit" -> ParseOk(IF h.v = "null" THEN Null ELSE Bool(h.v), r)
            [] h.k = "[" ->
                 IF r # <<>> /\ Head(r).k = "]" THEN ParseOk(Arr(<<>>), Tail(r))
                 ELSE ParseElems(r, <<>>)
            [] h.k = "{" ->
                 IF r # <<>> /\ Head(r).k = "}" THEN ParseOk(Obj(EmptyObj), Tail(r))
                 ELSE ParseMembers(r, EmptyObj)
            [] OTHER -> ParseFail

ParseElems(ts, acc) ==
  LET e == ParseValue(ts)
  IN IF ~e.ok \/ e.rest = <<>> THEN ParseFail
     ELSE IF Head(e.rest).k = "," THEN ParseElems(Tail(e.rest), Append(acc, e.val))
     ELSE IF Head(e.rest).k = "]" THEN ParseOk(Arr(Append(acc, e.val)), Tail(e.rest))
     ELSE ParseFail

ParseMembers(ts, acc) ==
  IF Len(ts) < 3 \/ ts[1].k # "str" \/ ts[2].k # ":" THEN ParseFail
  ELSE LET e == ParseValue(SubSeq(ts, 3, Len(ts)))
       IN IF ~e.ok \/ e.rest = <<>> THEN ParseFail
          ELSE IF Head(e.rest).k = "," THEN ParseMembers(Tail(e.rest), With(acc, ts[1].v, e.val))
          ELSE IF Head(e.rest).k = "}" THEN ParseOk(Obj(With(acc, ts[1].v, e.val)), Tail(e.rest))
          ELSE ParseFail

\* JSON.parse(text): [ok, val]; ok is FALSE where JSON.parse throws.
JSONParse(text) ==
  LET r == ParseValue(SelectSeq(text, NotWs))
  IN IF r.ok /\ r.rest = <<>> THEN [ok |-> TRUE, val |-> r.val]
     ELSE [ok |-> FALSE, val |-> Undef]

-----------------------------------------------------------------------------
(* Generation client (geminiService): parseResponse.                       *)

Thrown == [kind |-> "throw", deck |-> Null, text |-> <<>>, msg |-> ""]
Delivered(d) == [kind |-> "deliver", deck |-> d, text |-> <<>>, msg |-> ""]
Request(text) == [kind |-> "generate", deck |-> Null, text |-> text, msg |-> ""]
Rejected(m) == [kind |-> "error", deck |-> Null, text |-> <<>>, msg |-> m]

\* `card-${Date.now()}-${index}`
CardId(t, index) == Str("card-" \o ToString(t) \o "-" \o ToString(index))

\* { ...card, id: `card-${Date.now()}-${index}` }
WithCardId(card, t, index) == Obj(With(Spread(card), "id", CardId(t, index)))

\* parseResponse(response) at time t, text being response.text: the deck
\* returned, or Thrown ("No response from AI", JSON.parse throwing, or the
\* TypeError of data.cards.map when data is null or data.cards has no map).
parseResponse(text, t) ==
  IF text = <<>> THEN Thrown
  ELSE LET p == JSONParse(text)
           data == p.val
           cards == Get(data, "cards")
       IN IF ~p.ok \/ Nullish(data) \/ cards.t # "arr" THEN Thrown
          ELSE Delivered(Obj(
                 ("title" :> Get(data, "title")) @@
                 ("cards" :> Arr([i \in 1..Len(cards.v) |-> WithCardId(cards.v[i], t, i - 1)]))))

-----------------------------------------------------------------------------
(* DeckGenerator: schema check, card normaliser, content classifier.       *)

MsgProcess == "Failed to process content. Ensure it is a valid JSON deck or a list of words."
MsgInvalid == "Invalid JSON format. Please upload a saved Deck file or a list of words (array of strings)."
MsgParse == "Failed to parse JSON content."
MsgRead == "Failed to read file."

isValidDeck(data) ==
  /\ data.t \in {"obj", "arr"}
  /\ Get(data, "title").t = "str"
  /\ Get(data, "cards").t = "arr"

\* Array.isArray(json) && json.every(item => typeof item === 'string')
IsStringArray(json) == json.t = "arr" /\ \A i \in DOMAIN json.v : json.v[i].t = "str"

\* `imported-${Date.now()}-${i}`
ImportedId(t, i) == Str("imported-" \o ToString(t) \o "-" \o ToString(i))

\* A card mapping that gives every card a fresh id.
KeptIdFresh(c, t, i) == ImportedId(t, i)

\* c.id || `imported-${Date.now()}-${i}`
KeptId(c, t, i) == OrElse(Get(c, "id"), ImportedId(t, i))

\* An example mapping that prefers the legacy field to the record's own text.
NormalizeExampleLegacyFirst(ex) ==
  Obj([simplified |-> OrElse(OrElse(Get(ex, "chinese"), Get(ex, "simplified")), Str("")),
       traditional |-> OrElse(OrElse(Get(ex, "chinese"), Get(ex, "traditional")), Str("")),
       pinyin |-> Get(ex, "pinyin"),
       english |-> Get(ex, "english")])

\* The example mapping of processContent.
NormalizeExample(ex) ==
  Obj([simplified |-> OrElse(OrElse(Get(ex, "simplified"), Get(ex, "chinese")), Str("")),
       traditional |-> OrElse(OrElse(Get(ex, "traditional"), Get(ex, "chinese")), Str("")),
       pinyin |-> Get(ex, "pinyin"),
       english |-> Get(ex, "english")])

\* c.examples?.map(...) || []
NormalizeExamples(c) ==
  LET e == Get(c, "examples")
  IN IF Nullish(e) THEN Arr(<<>>)
     ELSE Arr([j \in 1..Len(e.v) |-> NormalizeExample(e.v[j])])

\* The TypeErrors of the card mapping of processContent: c is null, c.examples
\* is neither nullish nor an array (it has no map), or an example is null.
CardThrows(c) ==
  \/ Nullish(c)
  \/ LET e == Get(c, "examples")
     IN /\ ~Nullish(e)
        /\ \/ e.t # "arr"
           \/ \E j \in DOMAIN e.v : Nullish(e.v[j])

\* The card mapping of processContent for the card at index i.
NormalizeCard(c, t, i) ==
  Obj(With(With(Spread(c), "examples", NormalizeExamples(c)), "id", KeptId(c, t, i)))

\* The card mapping of processJsonContent: { ...c, id: c.id || ... }.
NormalizeCardJson(c, t, i) == Obj(With(Spread(c), "id", KeptId(c, t, i)))

\* A delivery of the cards alone, without the payload's other properties.
WithCardsOnly(json, cards) == Obj([cards |-> Arr(cards)])

\* A deck from the payload with its cards in the opposite order.
WithCardsReversed(json, cards) ==
  Obj(With(Spread(json), "cards", Arr([i \in 1..Len(cards) |-> cards[Len(cards) + 1 - i]])))

\* { ...json, cards }
WithCards(json, cards) == Obj(With(Spread(json), "cards", Arr(cards)))

\* A text branch that hands over the payload without its white space.
TextBranchStripped(content) ==
  IF IsBlank(content) THEN Rejected(MsgProcess) ELSE Request(SelectSeq(content, NotWs))

\* Step 2 of processContent: the payload is handed to generation as text.
TextBranch(content) == IF IsBlank(content) THEN Rejected(MsgProcess) ELSE Request(content)

\* processContent(content) up to its first await, at time t: the deck it
\* delivers, the generation request it issues, or the error it sets.
processContent(content, t) ==
  LET p == JSONParse(content)
      json == p.val
  IN IF p.ok /\ Truthy(json)
     THEN IF isValidDeck(json)
          THEN LET cs == Get(json, "cards").v
               IN IF \E i \in DOMAIN cs : CardThrows(cs[i]) THEN Rejected(MsgProcess)
                  ELSE Delivered(WithCards(json, [i \in 1..Len(cs) |-> NormalizeCard(cs[i], t, i - 1)]))
          ELSE IF IsStringArray(json) THEN Request(JoinLines(json.v))
          ELSE TextBranch(content)
     ELSE TextBranch(content)

\* processJsonContent(content) up to its first await, at time t.
processJsonContent(content, t) ==
  LET p == JSONParse(content)
      json == p.val
  IN IF ~p.ok THEN Rejected(MsgParse)
     ELSE IF isValidDeck(json)
          THEN LET cs == Get(json, "cards").v
               IN IF \E i \in DOMAIN cs : Nullish(cs[i]) THEN Rejected(MsgParse)
                  ELSE Delivered(WithCards(json, [i \in 1..Len(cs) |-> NormalizeCardJson(cs[i], t, i - 1)]))
          ELSE IF IsStringArray(json) THEN Request(JoinLines(json.v))
          ELSE Rejected(MsgInvalid)

\* The message set by the catch block around an awaited generation.
CatchMsg(v) == IF v = "processContent" THEN MsgProcess ELSE MsgParse

Classify(v, content, t) ==
  IF v = "processContent" THEN processContent(content, t) ELSE processJsonContent(content, t)

-----------------------------------------------------------------------------
(* The files the user can feed to the import, and the responses the        *)
(* generation service can give.                                            *)

Example(s, t) == Obj([simplified |-> Str(s), traditional |-> Str(t),
                      pinyin |-> Str("py"), english |-> Str("en")])

\* An example record of a deck saved before the simplified/traditional split.
LegacyExample(c) == Obj([chinese |-> Str(c), english |-> Str("en")])

WordCard(w, examples) ==
  [simplified |-> Str(w), traditional |-> Str(w \o "T"), pinyin |-> Str("py"),
   english |-> Str("en"), examples |-> Arr(examples)]

CardWithId(id, w, examples) == Obj(With(WordCard(w, examples), "id", Str(id)))
CardNoId(w, examples) == Obj(WordCard(w, examples))

DeckOf(title, cards) == Obj([title |-> Str(title), cards |-> Arr(cards)])

\* A word list typed one word per line: no JSON.
WordListText == <<Lx("raw", "nihao"), NL, Lx("raw", "xiexie")>>
EmptyText == <<>>
BlankText == <<SP, NL>>
\* JSON cut off before its end.
BrokenText == <<LBrack, Lx("str", "nihao"), Comma>>

\* JSON that is neither a deck nor a list of strings.
NoCardsObject == Obj([words |-> Arr(<<Str("nihao")>>)])
TitleOnlyObject == Obj([title |-> Str("t")])
MixedArray == Arr(<<Str("nihao"), Num("5")>>)

\* Lists of strings.
TwoWords == Arr(<<Str("nihao"), Str("xiexie")>>)
NoWords == Arr(<<>>)
EmptyWords == Arr(<<Str(""), Str("")>>)

\* Decks.
EmptyDeck == DeckOf("empty", <<>>)
OneCardDeck == DeckOf("one", <<CardWithId("a", "ni", <<Example("nihao", "nihaoT")>>)>>)
TwoCardDeck == DeckOf("two", <<CardWithId("a", "ni", <<Example("nihao", "nihaoT")>>),
                               CardWithId("b", "xie", <<Example("xiexie", "xiexieT"),
                                                         Example("", "")>>)>>)
\* Cards without ids; the example has no pinyin (the field is optional).
NoIdDeck ==
  DeckOf("noid",
         <<CardNoId("ni", <<Obj([simplified |-> Str("nihao"), traditional |-> Str("nihaoT"),
                                 english |-> Str("en")])>>),
           CardNoId("xie", <<>>)>>)
SameIdDeck == DeckOf("same", <<CardWithId("a", "ni", <<>>), CardWithId("a", "xie", <<>>)>>)
\* A card that carries the id the next card will be given at time 0.
MixedIdDeck == DeckOf("mixed", <<CardWithId("imported-0-1", "ni", <<>>), CardNoId("xie", <<>>)>>)
LegacyDeck ==
  DeckOf("legacy",
         <<CardWithId("a", "ni",
             <<LegacyExample("nihao"),
               Obj(With(LegacyExample("nihao").v, "simplified", Str("nimenhao"))),
               Obj(With(Example("nihao", "nihaoT").v, "chinese", Str("nimenhao")))>>)>>)
NullCardDeck == DeckOf("null", <<Null>>)
BadExamplesDeck == DeckOf("bad", <<Obj(With(Spread(CardNoId("ni", <<>>)), "examples", Str("none")))>>)
BareCardDeck == DeckOf("bare", <<Obj([simplified |-> Str("ni")])>>)

JsonFiles ==
  <<NoCardsObject, TitleOnlyObject, MixedArray, Num("0"), Null,
    TwoWords, NoWords, EmptyWords,
    EmptyDeck, OneCardDeck, TwoCardDeck, NoIdDeck, SameIdDeck, MixedIdDeck,
    LegacyDeck, NullCardDeck, BadExamplesDeck, BareCardDeck>>

AllFiles ==
  <<WordListText, EmptyText, BlankText, BrokenText>>
  \o [i \in 1..Len(JsonFiles) |-> Stringify(JsonFiles[i])]

GenWord(i) == "w" \o ToString(i)

\* A card as the response schema describes it (no id).
GenCard(i) == CardNoId(GenWord(i), <<Example(GenWord(i) \o "x", GenWord(i) \o "xT")>>)

GenDeck(n) == DeckOf("generated", [i \in 1..n |-> GenCard(i)])

\* A response with cards and no title.
CardsOnlyObject == Obj([cards |-> Arr(<<GenCard(1)>>)])

\* response.text: empty, not JSON, JSON without cards, JSON without title, or
\* a deck of 0..MaxGenCards cards.
ResponseTexts ==
  <<EmptyText, WordListText, Stringify(TitleOnlyObject), Stringify(CardsOnlyObject)>>
  \o [n \in 1..(MaxGenCards + 1) |-> Stringify(GenDeck(n - 1))]

-----------------------------------------------------------------------------
(* State.                                                                  *)

NoDownload == [text |-> <<>>, of |-> Null]
NoAction ==
  [via |-> "none", kind |-> "none", content |-> <<>>, reqs |-> <<>>, resps |-> <<>>,
   decks |-> <<>>, error |-> Null, index |-> 0]
NoRun == [dir |-> "none", start |-> 0, n |-> 0]
NoFlips == [n |-> 0, was |-> FALSE]
NoToggles == [n |-> 0, was |-> "simplified"]

Variants == {"processContent", "processJsonContent"}

\* process.env.GOOGLE_CLIENT_ID (or the saved client id), process.env.API_KEY,
\* and whether the page runs embedded (Electron, file: protocol).
FullEnv == [clientId |-> TRUE, apiKey |-> TRUE, embedded |-> FALSE]
Envs ==
  {FullEnv,
   [clientId |-> TRUE, apiKey |-> FALSE, embedded |-> FALSE],
   [clientId |-> FALSE, apiKey |-> TRUE, embedded |-> FALSE],
   [clientId |-> TRUE, apiKey |-> TRUE, embedded |-> TRUE]}

\* type Mode: the tabs of the DeckGenerator that is built in.
Modes == IF variant = "processContent" THEN {"manual", "link", "upload"} ELSE {"manual", "upload"}

NumCards == IF deck.t = "null" THEN 0 ELSE Len(Get(deck, "cards").v)

\* deck.cards[currentCardIndex]
CurrentCard ==
  IF deck.t # "null" /\ (currentCardIndex + 1) \in DOMAIN Get(deck, "cards").v
  THEN Get(deck, "cards").v[currentCardIndex + 1]
  ELSE Undef

\* Flashcard renders the card it is given: it reads data.simplified and maps
\* data.examples, reading each example's text.  A TypeError while rendering
\* takes the whole application down; no event is handled after it.
CanRender ==
  \/ deck.t = "null"
  \/ /\ ~Nullish(CurrentCard)
     /\ Get(CurrentCard, "examples").t = "arr"
     /\ \A j \in DOMAIN Get(CurrentCard, "examples").v : ~Nullish(Get(CurrentCard, "examples").v[j])

RemoveAt(s, j) == SubSeq(s, 1, j - 1) \o SubSeq(s, j + 1, Len(s))

InitWith(files, envs) ==
  /\ deck = Null
  /\ currentCardIndex = 0
  /\ isFlipped = FALSE
  /\ scriptMode = "simplified"
  /\ timers = <<>>
  /\ isLoading = FALSE
  /\ error = Null
  /\ mode = "manual"
  /\ variant \in Variants
  /\ env \in envs
  /\ variant = "processJsonContent" => env = FullEnv
  /\ jobs = <<>>
  /\ now = 0
  /\ download = NoDownload
  /\ started = 0
  /\ last = NoAction
  /\ disk = files
  /\ run = NoRun
  /\ flips = NoFlips
  /\ toggles = NoToggles

-----------------------------------------------------------------------------
(* App: the review session.                                                *)

\* A load that keeps the index of the current card.
HandleDeckGeneratedKeepsIndex(newDeck) ==
  /\ deck' = newDeck
  /\ currentCardIndex' = currentCardIndex
  /\ isFlipped' = FALSE
  /\ run' = NoRun
  /\ flips' = NoFlips
  /\ toggles' = NoToggles

\* handleDeckGenerated(newDeck)
HandleDeckGenerated(newDeck) ==
  /\ deck' = newDeck
  /\ currentCardIndex' = 0
  /\ isFlipped' = FALSE
  /\ run' = NoRun
  /\ flips' = NoFlips
  /\ toggles' = NoToggles

\* A step forward that wraps one card late.
NextIndexLateWrap(prev, len) == IF len = 0 THEN -1 ELSE IF prev + 1 > len THEN 0 ELSE prev + 1

\* (prev + 1) % deck.cards.length, and NaN (written -1) for a deck of no cards
NextIndex(prev, len) == IF len = 0 THEN -1 ELSE (prev + 1) % len

\* (prev - 1 + deck.cards.length) % deck.cards.length
PrevIndex(prev, len) == IF len = 0 THEN -1 ELSE (prev - 1 + len) % len

\* The run of same-direction requests after one more request in direction dir:
\* a run starts at a request made with no update pending, and ends with a
\* request in the other direction, a request beyond one full circle, a load or a reset.
RunAfter(dir) ==
  IF timers = <<>> /\ (run.dir # dir \/ run.n >= NumCards)
  THEN [dir |-> dir, start |-> currentCardIndex, n |-> 1]
  ELSE IF run.dir = dir /\ run.n < NumCards THEN [run EXCEPT !.n = @ + 1]
  ELSE NoRun

\* What a navigation request does at once: setIsFlipped(false) and setTimeout.
Navigate(dir) ==
  /\ isFlipped' = FALSE
  /\ timers' = Append(timers, [dir |-> dir, len |-> NumCards])
  /\ UNCHANGED currentCardIndex

\* What no event of the review session touches: the state of DeckGenerator
\* and of the ingestion.
generator == <<isLoading, error, mode, variant, env, jobs, now, download, started, last, disk>>

HandleNext ==
  /\ CanRender
  /\ deck.t # "null"
  /\ Len(timers) < MaxTimers
  /\ Navigate("next")
  /\ run' = RunAfter("next")
  /\ flips' = NoFlips
  /\ toggles' = NoToggles
  /\ UNCHANGED <<deck, scriptMode, generator>>

HandlePrev ==
  /\ CanRender
  /\ deck.t # "null"
  /\ Len(timers) < MaxTimers
  /\ Navigate("prev")
  /\ run' = RunAfter("prev")
  /\ flips' = NoFlips
  /\ toggles' = NoToggles
  /\ UNCHANGED <<deck, scriptMode, generator>>

\* The callback of the oldest pending setTimeout: the index update, computed
\* with the card count the request saw.
TimerFires ==
  /\ CanRender
  /\ timers # <<>>
  /\ currentCardIndex' = IF Head(timers).dir = "next"
                         THEN NextIndex(currentCardIndex, Head(timers).len)
                         ELSE PrevIndex(currentCardIndex, Head(timers).len)
  /\ timers' = Tail(timers)
  /\ flips' = NoFlips
  /\ toggles' = NoToggles
  /\ UNCHANGED <<deck, isFlipped, scriptMode, run, generator>>

\* A flip that shows the back whatever is shown.
FlippedToBack(shown) == TRUE

\* A flip that shows the front whatever is shown.
FlippedToFront(shown) == FALSE

\* prev => !prev
Flipped(prev) == ~prev

\* The flips handled in a row after one more flip: how many (one or two), and
\* what isFlipped was before the first of them.
FlipsAfter == IF flips.n = 1 THEN [n |-> 2, was |-> flips.was] ELSE [n |-> 1, was |-> isFlipped]

HandleFlip ==
  /\ CanRender
  /\ deck.t # "null"
  /\ isFlipped' = Flipped(isFlipped)
  /\ flips' = FlipsAfter
  /\ toggles' = NoToggles
  /\ UNCHANGED <<deck, currentCardIndex, scriptMode, timers, run, generator>>

\* A toggle that always chooses the traditional script.
ToggledToTraditional(prev) == "traditional"

\* prev => prev === 'simplified' ? 'traditional' : 'simplified'
Toggled(prev) == IF prev = "simplified" THEN "traditional" ELSE "simplified"

\* The toggles handled in a row after one more toggle: how many (one or two),
\* and what scriptMode was before the first of them.
TogglesAfter ==
  IF toggles.n = 1 THEN [n |-> 2, was |-> toggles.was] ELSE [n |-> 1, was |-> scriptMode]

ToggleScriptMode ==
  /\ CanRender
  /\ deck.t # "null"
  /\ scriptMode' = Toggled(scriptMode)
  /\ flips' = NoFlips
  /\ toggles' = TogglesAfter
  /\ UNCHANGED <<deck, currentCardIndex, isFlipped, timers, run, generator>>

\* The keys a keydown event can carry (Enter stands for every other key) and
\* the elements it can be aimed at.
KeyCodes == {"Space", "ArrowUp", "ArrowDown", "ArrowRight", "ArrowLeft", "Enter"}
KeyTargets == {"body", "textarea", "input"}

\* A key handler that does not look at the target of the event.
OnKeyAnyTarget(code, target) ==
  CASE code \in {"Space", "ArrowUp", "ArrowDown"} -> "flip"
    [] code = "ArrowRight" -> "next"
    [] code = "ArrowLeft" -> "prev"
    [] OTHER -> "none"

\* handleKeyDown: the handler the key calls, if any.
OnKey(code, target) ==
  IF target \in {"textarea", "input"} THEN "none"
  ELSE CASE code \in {"Space", "ArrowUp", "ArrowDown"} -> "flip"
         [] code = "ArrowRight" -> "next"
         [] code = "ArrowLeft" -> "prev"
         [] OTHER -> "none"

\* A keydown event on the window; the listener is there while a deck is loaded.
HandleKeyDown(code, target) ==
  IF deck.t = "null" THEN UNCHANGED vars
  ELSE CASE OnKey(code, target) = "flip" -> HandleFlip
         [] OnKey(code, target) = "next" -> HandleNext
         [] OnKey(code, target) = "prev" -> HandlePrev
         [] OTHER -> UNCHANGED vars

\* resetDeck; DeckGenerator is mounted afresh when a deck was shown.
ResetDeck ==
  /\ CanRender
  /\ deck.t # "null"
  /\ deck' = Null
  /\ currentCardIndex' = 0
  /\ isFlipped' = FALSE
  /\ run' = NoRun
  /\ flips' = NoFlips
  /\ toggles' = NoToggles
  /\ isLoading' = FALSE
  /\ error' = Null
  /\ mode' = "manual"
  /\ UNCHANGED <<scriptMode, timers, variant, env, jobs, now, download, started, last, disk>>

\* saveDeck: the deck is written to a file with JSON.stringify(deck, null, 2).
SaveDeck ==
  /\ CanRender
  /\ deck.t # "null"
  /\ download' = [text |-> Stringify(deck), of |-> deck]
  /\ UNCHANGED <<deck, currentCardIndex, isFlipped, scriptMode, timers, isLoading, error,
                 mode, variant, env, jobs, now, started, last, disk, run, flips, toggles>>

-----------------------------------------------------------------------------
(* DeckGenerator: the ingestion actions.  A job is an ingestion action in  *)
(* flight: kind says which control started it ("file", "manual", "url",    *)
(* "drive"), pc what it awaits ("read", "fetch", "init", "auth", "picker", *)
(* "gen"), content the text it ingests, reqs the generation requests it    *)
(* has issued.                                                             *)

MsgGenerate == "Failed to generate deck. Please try again."
MsgUrl == "Failed to fetch from URL. Note: The URL must be public and allow CORS (e.g. GitHub Raw Gist)."
MsgDriveLink == "Could not find a valid Google Drive File ID in the link."
MsgDownload == "Could not download file. Ensure the file link is set to 'Anyone with the link' can view. If it still fails, please download the file manually and use the upload box above."
MsgEmbedded == "Google Sign-In is not supported in embedded environments. Please open this app in a standard web browser (Chrome, Edge, etc)."
MsgDriveInit == "Failed to initialize Google Drive connection."
MsgAuth == "Authentication failed. Please check your Authorized Origins in Google Cloud Console."
MsgApiKey == "API Key is missing. The Google Picker requires a valid API Key."
MsgPicker == "Failed to create picker. Ensure Google Picker API is enabled in Cloud Console."
MsgDriveRead == "Failed to read file from Google Drive."

\* The record of the ingestion action of job, ended with the decks delivered
\* (one or none), the error message set (or null) and the responses received.
Ended(job, decks, err, rs) ==
  [via |-> variant, kind |-> job.kind, content |-> job.content, reqs |-> job.reqs,
   resps |-> rs, decks |-> decks, error |-> err, index |-> currentCardIndex]

\* A delivery that also sets the error message of the classifier.
DeliverWithMessage(j, d, rs) ==
  /\ HandleDeckGenerated(d)
  /\ isLoading' = FALSE
  /\ error' = Str(MsgProcess)
  /\ mode' = "manual"
  /\ last' = Ended(jobs[j], <<d>>, Null, rs)
  /\ jobs' = RemoveAt(jobs, j)

\* The job's handler has delivered deck d: onDeckGenerated(d).  App shows the
\* deck and DeckGenerator is unmounted (its state is gone).
Deliver(j, d, rs) ==
  /\ HandleDeckGenerated(d)
  /\ isLoading' = FALSE
  /\ error' = Null
  /\ mode' = "manual"
  /\ last' = Ended(jobs[j], <<d>>, Null, rs)
  /\ jobs' = RemoveAt(jobs, j)

\* A failure that shows no message.
FailureShownEmpty(m) == Str("")

\* setError(m)
FailureShown(m) == Str(m)

\* The job's handler has set the error message m and cleared the loading flag.
Fail(j, m, rs) ==
  /\ error' = FailureShown(m)
  /\ isLoading' = FALSE
  /\ last' = Ended(jobs[j], <<>>, FailureShown(m), rs)
  /\ jobs' = RemoveAt(jobs, j)
  /\ UNCHANGED <<deck, currentCardIndex, isFlipped, run, flips, toggles, mode>>

\* The job's handler has called generateDeckFromList(text) and awaits it.
Await(j, text) ==
  /\ jobs' = [jobs EXCEPT ![j] = [kind |-> @.kind, pc |-> "gen", content |-> @.content,
                                  reqs |-> Append(@.reqs, text)]]
  /\ UNCHANGED <<deck, currentCardIndex, isFlipped, run, flips, toggles, isLoading, error, mode, last>>

\* The content of the job is handed to the classifier at the time of the step.
Process(j) ==
  LET out == Classify(variant, jobs[j].content, now)
  IN CASE out.kind = "deliver" -> Deliver(j, out.deck, <<>>)
       [] out.kind = "generate" -> Await(j, out.text)
       [] OTHER -> Fail(j, out.msg, <<>>)

\* A control that is enabled whatever is loading.
ControlAlwaysEnabled(tab) == deck.t = "null" /\ CanRender /\ mode = tab

\* A control of the tab is rendered and not disabled: disabled={isLoading}.
ControlEnabled(tab) == deck.t = "null" /\ CanRender /\ mode = tab /\ ~isLoading

\* A handler starts an ingestion action: setIsLoading(true); setError(null).
Start(job) ==
  /\ started < MaxActions
  /\ started' = started + 1
  /\ isLoading' = TRUE
  /\ error' = Null
  /\ jobs' = Append(jobs, job)
  /\ last' = NoAction
  /\ UNCHANGED <<deck, currentCardIndex, isFlipped, scriptMode, timers, mode, variant, env,
                 now, download, disk, run, flips, toggles>>

\* A handler ends at once with the error message m: setIsLoading(true);
\* setError(null); setError(m); setIsLoading(false), with nothing awaited.
Refuse(kind, m, loading) ==
  /\ started < MaxActions
  /\ started' = started + 1
  /\ isLoading' = loading
  /\ error' = FailureShown(m)
  /\ last' = Ended([kind |-> kind, content |-> <<>>, reqs |-> <<>>], <<>>, FailureShown(m), <<>>)
  /\ UNCHANGED <<deck, currentCardIndex, isFlipped, scriptMode, timers, mode, variant, env,
                 jobs, now, download, disk, run, flips, toggles>>

\* A tab button: setMode(m); setInputValue(''); setError(null).
SetMode(m) ==
  /\ deck.t = "null"
  /\ CanRender
  /\ m \in Modes
  /\ m # mode
  /\ mode' = m
  /\ error' = Null
  /\ UNCHANGED <<deck, currentCardIndex, isFlipped, scriptMode, timers, isLoading, variant,
                 env, jobs, now, download, started, last, disk, run, flips, toggles>>

\* handleFileUpload: the user picks a file of the given content in the file input.
HandleFileUpload(content) ==
  /\ ControlEnabled("upload")
  /\ Start([kind |-> "file", pc |-> "read", content |-> content, reqs |-> <<>>])

\* reader.onerror
ReaderOnError(j) ==
  /\ CanRender
  /\ jobs[j].pc = "read"
  /\ Fail(j, MsgRead, <<>>)
  /\ UNCHANGED <<scriptMode, timers, variant, env, now, download, started, disk>>

\* reader.onload: processContent / processJsonContent up to its first await,
\* then (when nothing is awaited) setIsLoading(false).
ReaderOnLoad(j) ==
  /\ CanRender
  /\ jobs[j].pc = "read"
  /\ Process(j)
  /\ UNCHANGED <<scriptMode, timers, variant, env, now, download, started, disk>>

\* handleManualSubmit (handleSubmit in the older build): the text typed is sent
\* to generation as it is.
HandleManualSubmit(text) ==
  /\ ControlEnabled("manual")
  /\ ~IsBlank(text)
  /\ Start([kind |-> "manual", pc |-> "gen", content |-> text, reqs |-> <<text>>])

\* handleUrlSubmit of a URL that holds the given content (handleDriveImport of
\* a Drive link in the older build); wellFormed is whether new URL(inputValue)
\* succeeds (whether the link holds a file id).
HandleUrlSubmit(wellFormed, content) ==
  /\ ControlEnabled(IF variant = "processContent" THEN "link" ELSE "upload")
  /\ IF wellFormed
     THEN Start([kind |-> "url", pc |-> "fetch", content |-> content, reqs |-> <<>>])
     ELSE /\ content = <<>>
          /\ Refuse("url", IF variant = "processContent" THEN MsgUrl ELSE MsgDriveLink, FALSE)

\* A Drive button that is enabled without a client id.
DriveEnabledAnyClient == variant = "processContent" /\ ControlEnabled("upload")

\* The Drive button is rendered and not disabled: disabled={isLoading || !CLIENT_ID}.
DriveEnabled == variant = "processContent" /\ ControlEnabled("upload") /\ env.clientId

\* handleDrivePick: the Drive button, disabled without a client id.
HandleDrivePick ==
  /\ DriveEnabled
  /\ IF env.embedded
     THEN Refuse("drive", MsgEmbedded, isLoading)
     ELSE Start([kind |-> "drive", pc |-> "init", content |-> <<>>, reqs |-> <<>>])

\* initGoogleAuth settles: the token client is there and requestAccessToken
\* opens the consent popup, or a script failed to load (the token client is
\* missing) and the catch block of handleDrivePick runs.
DriveInitSettles(j, ok) ==
  /\ CanRender
  /\ jobs[j].pc = "init"
  /\ IF ok
     THEN /\ jobs' = [jobs EXCEPT ![j].pc = "auth"]
          /\ UNCHANGED <<deck, currentCardIndex, isFlipped, run, flips, toggles, isLoading, error, mode, last>>
     ELSE Fail(j, MsgDriveInit, <<>>)
  /\ UNCHANGED <<scriptMode, timers, variant, env, now, download, started, disk>>

\* The consent popup ends.  "granted": the callback runs createPicker, which
\* shows the picker, or fails for the missing API key, or throws while
\* building it.  "denied": the callback gets response.error.  "closed": the
\* user closes the popup; the token client calls no callback, and
\* requestAccessToken was given no error_callback.
AuthSettles(j, r) ==
  /\ CanRender
  /\ jobs[j].pc = "auth"
  /\ CASE r = "granted" /\ env.apiKey ->
            /\ jobs' = [jobs EXCEPT ![j].pc = "picker"]
            /\ UNCHANGED <<deck, currentCardIndex, isFlipped, run, flips, toggles, isLoading, error, mode, last>>
       [] r = "granted" /\ ~env.apiKey -> Fail(j, MsgApiKey, <<>>)
       [] r = "broken" -> Fail(j, MsgPicker, <<>>)
       [] r = "denied" -> Fail(j, MsgAuth, <<>>)
       [] OTHER ->
            /\ jobs' = RemoveAt(jobs, j)
            /\ UNCHANGED <<deck, currentCardIndex, isFlipped, run, flips, toggles, isLoading, error, mode, last>>
  /\ UNCHANGED <<scriptMode, timers, variant, env, now, download, started, disk>>

\* pickerCallback: a file of the given content is picked (fetchDriveFile
\* starts), or the picker is cancelled (setIsLoading(false), no message).
PickerSettles(j, picked, content) ==
  /\ CanRender
  /\ jobs[j].pc = "picker"
  /\ IF picked
     THEN /\ jobs' = [jobs EXCEPT ![j] = [kind |-> @.kind, pc |-> "fetch", content |-> content,
                                          reqs |-> @.reqs]]
          /\ UNCHANGED <<isLoading, last>>
     ELSE /\ content = <<>>
          /\ jobs' = RemoveAt(jobs, j)
          /\ isLoading' = FALSE
          /\ last' = Ended(jobs[j], <<>>, Null, <<>>)
  /\ UNCHANGED <<deck, currentCardIndex, isFlipped, scriptMode, timers, error, mode, variant,
                 env, now, download, started, disk, run, flips, toggles>>

\* The message of the catch block around the fetch of a job of the kind.
FetchMsg(kind) ==
  IF kind = "drive" THEN MsgDriveRead
  ELSE IF variant = "processContent" THEN MsgUrl ELSE MsgDownload

\* The fetch of handleUrlSubmit, handleDriveImport or fetchDriveFile settles:
\* with the text of the response, which goes to the classifier, or with a
\* network error or a response that is not ok.
FetchSettles(j, ok) ==
  /\ CanRender
  /\ jobs[j].pc = "fetch"
  /\ IF ok THEN Process(j) ELSE Fail(j, FetchMsg(jobs[j].kind), <<>>)
  /\ UNCHANGED <<scriptMode, timers, variant, env, now, download, started, disk>>

\* The message of the catch block around the awaited generation of a job of the kind.
GenerationMsg(kind) == IF kind = "manual" THEN MsgGenerate ELSE CatchMsg(variant)

\* A handler that, when its first request is rejected, goes on to the text
\* branch and sends the content again.
OnRejectionFallsThrough(job) ==
  IF Len(job.reqs) = 1 THEN Request(job.content) ELSE Rejected(GenerationMsg(job.kind))

\* The awaited generation rejects: control goes to the catch block of the
\* handler, which sets the message; nothing is sent again.
OnRejection(job) == Rejected(GenerationMsg(job.kind))

\* A line of the list with the user's own example ("苹果: 我爱吃苹果", in
\* Latin letters here), and the card the instructions of the prompt ask for:
\* that example alone, its characters as they were typed.
ExampleLineText == <<Lx("raw", "pingguo: wo ai chi pingguo")>>
ExampleLineDeck ==
  DeckOf("Custom Vocabulary List",
         <<CardNoId("pingguo", <<Example("wo ai chi pingguo", "wo ai chi pingguo")>>)>>)

\* What the service can answer to the request text: any response.text, and
\* for the line with an example also the deck the prompt asks for.
Answers(text) ==
  ResponseTexts \o (IF text = ExampleLineText THEN <<Stringify(ExampleLineDeck)>> ELSE <<>>)

\* The awaited generateDeckFromList settles: with response r of the service,
\* or (r = 0) with a network or service error; the service answers no
\* request made with the empty API key of getAI.
GenerationSettles(j, r) ==
  /\ CanRender
  /\ jobs[j].pc = "gen"
  /\ r # 0 => env.apiKey
  /\ r <= Len(Answers(jobs[j].reqs[Len(jobs[j].reqs)]))
  /\ LET answer == Answers(jobs[j].reqs[Len(jobs[j].reqs)])
         out == IF r = 0 THEN Thrown ELSE parseResponse(answer[r], now)
         rs == IF r = 0 THEN <<>> ELSE <<answer[r]>>
         caught == OnRejection(jobs[j])
     IN CASE out.kind = "deliver" -> Deliver(j, out.deck, rs)
          [] out.kind # "deliver" /\ caught.kind = "generate" -> Await(j, caught.text)
          [] OTHER -> Fail(j, caught.msg, rs)
  /\ UNCHANGED <<scriptMode, timers, variant, env, now, download, started, disk>>

\* Time passes.
Tick ==
  /\ now < MaxNow
  /\ now' = now + 1
  /\ UNCHANGED <<deck, currentCardIndex, isFlipped, scriptMode, timers, isLoading, error,
                 mode, variant, env, jobs, download, started, last, disk, run, flips, toggles>>

\* The files the file input can be given: the user's, and the last download.
Pickable == {disk[i] : i \in DOMAIN disk} \cup (IF download.of.t = "null" THEN {} ELSE {download.text})

\* What the user types in the list tab.
ManualTexts == {WordListText, BlankText}

\* What a URL or a Drive file holds.
RemoteFiles == {WordListText, Stringify(TwoWords), Stringify(OneCardDeck), Stringify(NullCardDeck)}

Session ==
  \/ HandleNext
  \/ HandlePrev
  \/ TimerFires
  \/ HandleFlip
  \/ ToggleScriptMode

Ingestion ==
  \/ \E m \in {"manual", "link", "upload"} : SetMode(m)
  \/ \E f \in Pickable : HandleFileUpload(f)
  \/ \E j \in DOMAIN jobs : ReaderOnError(j)
  \/ \E j \in DOMAIN jobs : ReaderOnLoad(j)
  \/ \E j \in DOMAIN jobs : \E r \in 0..Len(ResponseTexts) : GenerationSettles(j, r)
  \/ ResetDeck
  \/ SaveDeck
  \/ Tick

\* The other ways into DeckGenerator: the list typed by hand, the link, Drive.
Controls ==
  \/ \E text \in ManualTexts : HandleManualSubmit(text)
  \/ \E f \in RemoteFiles \cup {<<>>} : \E wellFormed \in BOOLEAN : HandleUrlSubmit(wellFormed, f)
  \/ HandleDrivePick
  \/ \E j \in DOMAIN jobs : \E ok \in BOOLEAN : DriveInitSettles(j, ok)
  \/ \E j \in DOMAIN jobs : \E r \in {"granted", "broken", "denied", "closed"} : AuthSettles(j, r)
  \/ \E j \in DOMAIN jobs : \E f \in RemoteFiles \cup {<<>>} : \E picked \in BOOLEAN : PickerSettles(j, picked, f)
  \/ \E j \in DOMAIN jobs : \E ok \in BOOLEAN : FetchSettles(j, ok)

Next == Session \/ Ingestion

\* The files of the navigation study: what loads decks of one, two and more cards.
SessionFiles == <<Stringify(TwoWords), Stringify(OneCardDeck), Stringify(TwoCardDeck),
                  Stringify(NullCardDeck)>>

\* The files of the study of the controls.
ControlFiles == <<WordListText, Stringify(NoCardsObject), Stringify(OneCardDeck)>>

Init == InitWith(SessionFiles, {FullEnv})
InitIngest == InitWith(AllFiles, {FullEnv})
InitControls == InitWith(ControlFiles, Envs)

\* The application with the file upload as the way in, over a few decks.
Spec == Init /\ [][Next]_vars

\* Ingestion over every file, the session's navigation left aside: navigation
\* reads and writes nothing that ingestion reads.
SpecIngest == InitIngest /\ [][Ingestion]_vars

\* The list tab fed with a line that carries the user's own example.
Examples ==
  \/ HandleManualSubmit(ExampleLineText)
  \/ \E j \in DOMAIN jobs : \E r \in 0..(Len(ResponseTexts) + 1) : GenerationSettles(j, r)
  \/ ResetDeck
  \/ SaveDeck
  \/ Tick

SpecExamples == InitControls /\ [][Examples]_vars

\* The review session driven by the keyboard alone, on decks loaded from files.
Keyboard ==
  \/ \E code \in KeyCodes : \E target \in KeyTargets : HandleKeyDown(code, target)
  \/ TimerFires
  \/ \E m \in {"manual", "link", "upload"} : SetMode(m)
  \/ \E f \in Pickable : HandleFileUpload(f)
  \/ \E j \in DOMAIN jobs : ReaderOnLoad(j)
  \/ ResetDeck

KeyFiles == <<Stringify(OneCardDeck), Stringify(TwoCardDeck)>>
InitKeys == InitWith(KeyFiles, {FullEnv})
SpecKeys == InitKeys /\ [][Keyboard]_vars

\* Every control of DeckGenerator over a few files, with the script toggle of
\* the session (its setting outlives the deck it was made on).
SpecControls == InitControls /\ [][Ingestion \/ Controls \/ ToggleScriptMode]_vars

-----------------------------------------------------------------------------
(* Vocabulary of the properties.                                           *)

\* The classifier ran on the finished action a: its content was read or
\* fetched, and it ended with a deck or with a message of the classifier.
Classified(a) ==
  /\ a.kind \in {"file", "url", "drive"}
  /\ \/ a.decks # <<>>
     \/ a.error \in {Str(MsgProcess), Str(MsgInvalid), Str(MsgParse)}

\* The job hands its content to the classifier (a list typed by hand goes
\* to generation without it).
Classifies(job) == job.kind \in {"file", "url", "drive"}

\* The value a text parses to, and Undef for a text that is no JSON.
Parsed(text) == JSONParse(text).val
IsJson(text) == JSONParse(text).ok

\* Deck-shaped: a string title and a cards sequence.
DeckShaped(x) == x.t = "obj" /\ Get(x, "title").t = "str" /\ Get(x, "cards").t = "arr"

\* A sequence of plain strings.
StringList(x) == x.t = "arr" /\ \A i \in DOMAIN x.v : x.v[i].t = "str"

\* A direct import: the finished action delivered a deck without any request.
DirectImport(a) == Classified(a) /\ a.decks # <<>> /\ a.reqs = <<>>

CardsOf(d) == Get(d, "cards").v
ExamplesOf(c) == IF Get(c, "examples").t = "arr" THEN Get(c, "examples").v ELSE <<>>

-----------------------------------------------------------------------------
\* C1: a payload that parses as JSON but is neither deck-shaped nor a list of
\* plain strings ends in an error shown to the user; no generation request
\* is issued for it and no deck is delivered.
C1_UnrecognizedJsonIsRejected ==
  LET Unrecognized(text) == IsJson(text) /\ ~DeckShaped(Parsed(text)) /\ ~StringList(Parsed(text))
  IN /\ \A j \in DOMAIN jobs :
          (Classifies(jobs[j]) /\ Unrecognized(jobs[j].content)) => jobs[j].reqs = <<>>
     /\ (Classified(last) /\ Unrecognized(last.content))
          => (last.reqs = <<>> /\ last.decks = <<>> /\ last.error.t = "str")

-----------------------------------------------------------------------------
\* C2: within a run of same-direction requests on a loaded deck of N cards,
\* the index is the start moved by exactly the requests whose update has
\* taken effect (none lost, none applied twice); so N next requests, all
\* applied, bring the index back to where the run started, and so do N
\* previous requests.
C2_CircularNavigation ==
  (run.dir # "none" /\ deck.t # "null") =>
    LET applied == run.n - Len(timers)
    IN /\ applied \in 0..run.n
       /\ currentCardIndex = IF run.dir = "next"
                             THEN (run.start + applied) % NumCards
                             ELSE (run.start - applied) % NumCards
       /\ (run.n = NumCards /\ timers = <<>>) => currentCardIndex = run.start

\* A full circle of next requests on a deck of two or more cards, started
\* away from the first card, is back at its start.
C2_Witness ==
  /\ run.dir = "next"
  /\ NumCards >= 2
  /\ run.n = NumCards
  /\ run.start = 1
  /\ timers = <<>>
  /\ currentCardIndex = 1

-----------------------------------------------------------------------------
\* C3: whenever the deferred index update of a next or previous request takes
\* effect and moves the index, the card is not flipped.
C3_NavigationShowsFront ==
  [][(timers # <<>> /\ timers' = Tail(timers) /\ currentCardIndex' # currentCardIndex)
       => ~isFlipped']_vars

-----------------------------------------------------------------------------
\* C4: while a navigation is half applied (flipped cleared, index update
\* pending), the only step that changes the session is its index update: no
\* flip, script toggle, load, reset or further navigation comes between.
C4_NavigationIsAtomic ==
  [][timers # <<>> =>
       \/ timers' = Tail(timers)
       \/ UNCHANGED <<deck, currentCardIndex, isFlipped, scriptMode, timers>>]_vars

-----------------------------------------------------------------------------
\* C5: a deck held by the review session has at least one card.
C5_LoadedDeckHasCard == deck.t # "null" => NumCards >= 1

-----------------------------------------------------------------------------
\* C6: in a deck held by the review session every card has an id, and no two
\* cards have the same id.
C6_IdsUniqueInDeck ==
  deck.t # "null" =>
    /\ \A i \in DOMAIN CardsOf(deck) : Get(CardsOf(deck)[i], "id").t = "str"
    /\ \A i, k \in DOMAIN CardsOf(deck) :
         i # k => Get(CardsOf(deck)[i], "id") # Get(CardsOf(deck)[k], "id")

-----------------------------------------------------------------------------
\* A deck as the data model describes it: a string title, at least one card,
\* every card with a string id, the four text fields and a list of examples,
\* every example with simplified, traditional and english text and, if at
\* all, pinyin text, and nothing else.
ValidExample(e) ==
  /\ e.t = "obj"
  /\ DOMAIN e.v \subseteq {"simplified", "traditional", "pinyin", "english"}
  /\ \A k \in {"simplified", "traditional", "english"} : Get(e, k).t = "str"
  /\ Get(e, "pinyin").t \in {"str", "undef"}

ValidCard(c) ==
  /\ c.t = "obj"
  /\ \A k \in {"id", "simplified", "traditional", "pinyin", "english"} : Get(c, k).t = "str"
  /\ Get(c, "examples").t = "arr"
  /\ \A j \in DOMAIN Get(c, "examples").v : ValidExample(Get(c, "examples").v[j])

ValidDeck(d) ==
  /\ DeckShaped(d)
  /\ CardsOf(d) # <<>>
  /\ \A i \in DOMAIN CardsOf(d) : ValidCard(CardsOf(d)[i])

\* The same value, field by field: objects agree on every property either
\* has (a missing property reads undefined), arrays agree element by element.
RECURSIVE SameValue(_, _)
SameValue(a, b) ==
  /\ a.t = b.t
  /\ CASE a.t = "obj" -> \A k \in (DOMAIN a.v) \cup (DOMAIN b.v) : SameValue(Get(a, k), Get(b, k))
       [] a.t = "arr" -> /\ Len(a.v) = Len(b.v)
                         /\ \A i \in DOMAIN a.v : SameValue(a.v[i], b.v[i])
       [] OTHER -> a.v = b.v

\* C7: a valid deck saved by the export action and fed, as the saved text, to
\* the import classifier is delivered again equal to the deck that was saved:
\* title, cards in order, every card field, every example field, every id.
C7_ExportImportRoundTrip ==
  (/\ download.of.t # "null"
   /\ ValidDeck(download.of)
   /\ Classified(last)
   /\ last.content = download.text)
    => /\ Len(last.decks) = 1
       /\ last.reqs = <<>>
       /\ SameValue(last.decks[1], download.of)

\* A deck whose ids were given by the import, with an example, has been saved
\* at one time and imported again at a later time, and is shown.
C7_Witness ==
  /\ download.of.t # "null"
  /\ ValidDeck(download.of)
  /\ Classified(last)
  /\ last.content = download.text
  /\ now > 0
  /\ deck = last.decks[1]
  /\ Len(CardsOf(deck)) = 2
  /\ Get(CardsOf(deck)[1], "id") = Str("imported-0-0")
  /\ \E i \in DOMAIN CardsOf(deck) : ExamplesOf(CardsOf(deck)[i]) # <<>>

-----------------------------------------------------------------------------
\* The example records of the payload of a direct import, beside the example
\* records delivered for them: card i, example j.
SourceExample(a, i, j) == ExamplesOf(CardsOf(Parsed(a.content))[i])[j]
DeliveredExample(a, i, j) == ExamplesOf(CardsOf(a.decks[1])[i])[j]
ExamplePlaces(a) ==
  {p \in (1..3) \X (1..3) :
     /\ p[1] \in DOMAIN CardsOf(Parsed(a.content))
     /\ p[2] \in DOMAIN ExamplesOf(CardsOf(Parsed(a.content))[p[1]])}

\* C8 as claimed: an imported example record that carries the legacy chinese
\* field has, once normalised, simplified text equal to its traditional text,
\* both the legacy value, whatever else the record carries.
C8_LegacyTextInBothSlots ==
  DirectImport(last) =>
    \A p \in ExamplePlaces(last) :
      LET src == SourceExample(last, p[1], p[2])
          out == DeliveredExample(last, p[1], p[2])
      IN "chinese" \in DOMAIN Spread(src) =>
           /\ Get(out, "simplified") = Get(src, "chinese")
           /\ Get(out, "traditional") = Get(src, "chinese")

\* C8 as amended: in an import by processContent, an example record that
\* carries the legacy chinese field keeps its own simplified text when that is
\* not empty and gets the legacy value otherwise, and likewise its traditional
\* text; a record with neither has both equal to the legacy value.  An import
\* by processJsonContent maps no examples: the record is delivered as it is.
C8_LegacyTextIsTheFallback ==
  DirectImport(last) =>
    \A p \in ExamplePlaces(last) :
      LET src == SourceExample(last, p[1], p[2])
          out == DeliveredExample(last, p[1], p[2])
          legacy == IF Truthy(Get(src, "chinese")) THEN Get(src, "chinese") ELSE Str("")
      IN "chinese" \in DOMAIN Spread(src) =>
           IF last.via = "processContent"
           THEN /\ \A k \in {"simplified", "traditional"} :
                     Get(out, k) = IF Truthy(Get(src, k)) THEN Get(src, k) ELSE legacy
                /\ (~Truthy(Get(src, "simplified")) /\ ~Truthy(Get(src, "traditional")))
                     => (Get(out, "simplified") = legacy /\ Get(out, "traditional") = legacy)
           ELSE out = src

\* The legacy deck has been imported by processContent: the record with only
\* the legacy field has it in both slots, the record with its own simplified
\* text has kept that.
C8_Witness ==
  /\ DirectImport(last)
  /\ last.via = "processContent"
  /\ last.content = Stringify(LegacyDeck)
  /\ Get(DeliveredExample(last, 1, 1), "simplified") = Str("nihao")
  /\ Get(DeliveredExample(last, 1, 1), "traditional") = Str("nihao")
  /\ Get(DeliveredExample(last, 1, 2), "simplified") = Str("nimenhao")
  /\ Get(DeliveredExample(last, 1, 2), "traditional") = Str("nihao")

-----------------------------------------------------------------------------
DeckShapedText(text) == IsJson(text) /\ DeckShaped(Parsed(text))

Readable(via, c) ==
  /\ c.t # "null"
  /\ via = "processContent" =>
       \/ Get(c, "examples").t \in {"undef", "null"}
       \/ /\ Get(c, "examples").t = "arr"
          /\ \A j \in DOMAIN Get(c, "examples").v : Get(c, "examples").v[j].t # "null"

-----------------------------------------------------------------------------
\* The lines of a text: what is between its line breaks.
RECURSIVE LinesFrom(_, _, _)
LinesFrom(text, i, line) ==
  IF i > Len(text) THEN <<line>>
  ELSE IF text[i] = NL THEN <<line>> \o LinesFrom(text, i + 1, <<>>)
  ELSE LinesFrom(text, i + 1, Append(line, text[i]))

\* text is the strings of list, one per line, in their order.
OnePerLine(text, list) ==
  IF list = <<>> THEN text = <<>>
  ELSE LinesFrom(text, 1, <<>>) = [i \in 1..Len(list) |-> TextOf(list[i].v)]

StringListText(text) == IsJson(text) /\ StringList(Parsed(text))

\* C10: for a payload that parses as a JSON array of plain strings the
\* classifier issues exactly one generation request, whose content is the
\* strings one per line in their order; it never delivers without a request.
C10_StringListGeneratesOnce ==
  /\ \A j \in DOMAIN jobs :
       (Classifies(jobs[j]) /\ StringListText(jobs[j].content)) =>
         \/ jobs[j].pc # "gen" /\ jobs[j].reqs = <<>>
         \/ /\ jobs[j].pc = "gen"
            /\ Len(jobs[j].reqs) = 1
            /\ OnePerLine(jobs[j].reqs[1], Parsed(jobs[j].content).v)
  /\ (Classified(last) /\ StringListText(last.content)) =>
       /\ Len(last.reqs) = 1
       /\ OnePerLine(last.reqs[1], Parsed(last.content).v)
       /\ Len(last.decks) <= 1

\* The list of two words has been sent as two lines and has come back as a
\* deck of two cards.
C10_Witness ==
  /\ Classified(last)
  /\ last.content = Stringify(TwoWords)
  /\ last.reqs = <<WordListText>>
  /\ Len(last.decks) = 1
  /\ deck = last.decks[1]
  /\ Len(CardsOf(deck)) = 2

-----------------------------------------------------------------------------
NoJson(text) == ~IsJson(text)

\* C11 as claimed: for a payload on which the JSON parse fails, the classifier
\* issues one generation request, whose content is the whole payload.
C11_UnparsableIsGenerated ==
  (Classified(last) /\ NoJson(last.content)) => last.reqs = <<last.content>>

\* C11 as amended: for a payload on which the JSON parse fails, processContent
\* issues one generation request whose content is the whole payload, unless
\* the payload is empty or white space only, and then it sets the error
\* message and issues none; processJsonContent never issues a request for
\* such a payload and sets the parse error message.
C11_UnparsableTextIsGenerated ==
  /\ \A j \in DOMAIN jobs :
       (Classifies(jobs[j]) /\ NoJson(jobs[j].content) /\ jobs[j].pc = "gen") =>
         /\ variant = "processContent"
         /\ jobs[j].reqs = <<jobs[j].content>>
         /\ \E i \in DOMAIN jobs[j].content : jobs[j].content[i].k # "ws"
  /\ (Classified(last) /\ NoJson(last.content)) =>
       IF last.via = "processContent"
       THEN IF \A i \in DOMAIN last.content : last.content[i].k = "ws"
            THEN last.reqs = <<>> /\ last.decks = <<>> /\ last.error = Str(MsgProcess)
            ELSE last.reqs = <<last.content>>
       ELSE last.reqs = <<>> /\ last.decks = <<>> /\ last.error = Str(MsgParse)

\* A word list that is no JSON has gone to generation as it is, line break
\* included, and has come back as a deck.
C11_Witness ==
  /\ Classified(last)
  /\ last.via = "processContent"
  /\ last.content = WordListText
  /\ last.reqs = <<WordListText>>
  /\ Len(last.decks) = 1
  /\ deck = last.decks[1]

-----------------------------------------------------------------------------
\* A response of the service that is no deck: empty, no JSON, or JSON
\* without a title or without cards.
InvalidResponse(text) ==
  \/ text = <<>>
  \/ NoJson(text)
  \/ Get(Parsed(text), "title").t = "undef"
  \/ Get(Parsed(text), "cards").t = "undef"

\* C12: an ingestion action whose generation request was answered with a
\* response that is empty, is no JSON, or lacks the title or the cards ends
\* with an error message and delivers no deck.
C12_InvalidResponseFails ==
  \A i \in DOMAIN last.resps :
    InvalidResponse(last.resps[i]) => (last.decks = <<>> /\ last.error.t = "str")

-----------------------------------------------------------------------------
\* C13: an ingestion action issues at most one generation request: a job has
\* issued one request exactly while it awaits it, and none before; the
\* action that has ended (with a deck or with a failure, also a failure of
\* the request for a list of strings) has issued at most one.
C13_SingleAttempt ==
  /\ \A j \in DOMAIN jobs :
       IF jobs[j].pc = "gen" THEN Len(jobs[j].reqs) = 1 ELSE jobs[j].reqs = <<>>
  /\ Len(last.reqs) <= 1
  /\ (last.decks = <<>> /\ last.resps # <<>>) => Len(last.reqs) = 1

\* The request for a list of strings fetched from a link was answered with no
\* deck: the action has ended with the message, after that one request.
C13_Witness ==
  /\ last.kind = "url"
  /\ last.content = Stringify(TwoWords)
  /\ last.reqs = <<WordListText>>
  /\ last.resps = <<EmptyText>> \/ last.resps = <<WordListText>>
  /\ last.decks = <<>>
  /\ last.error.t = "str"
  /\ jobs = <<>>
  /\ ~isLoading

-----------------------------------------------------------------------------
\* C14: a step in which an ingestion action ends without a deck (a failure
\* of the classifier, of the generation, of the read or the fetch, of the
\* authorization or the picker) leaves the deck, the index, the flip state
\* and the script mode as they are, and, unless it is the user cancelling the
\* picker, shows the non-empty error message the action ended with.
C14_FailureLeavesSessionAlone ==
  [][(/\ last'.kind # "none"
      /\ last'.decks = <<>>
      /\ (last' # last \/ started' # started))
       => /\ UNCHANGED <<deck, currentCardIndex, isFlipped, scriptMode>>
          /\ \/ \E j \in DOMAIN jobs : jobs[j].pc = "picker" /\ Len(jobs') < Len(jobs)
             \/ /\ error'.t = "str"
                /\ error'.v # ""
                /\ last'.error = error']_vars

\* The script mode was set to traditional on an earlier deck, and the Drive
\* authorization of the next action was denied: the message is shown, the
\* script mode is still traditional and no deck is held.
C14_Witness ==
  /\ last.kind = "drive"
  /\ last.decks = <<>>
  /\ last.error = Str(MsgAuth)
  /\ error = Str(MsgAuth)
  /\ scriptMode = "traditional"
  /\ deck = Null
  /\ ~isLoading

-----------------------------------------------------------------------------
\* C15: at most one ingestion action is in flight, and while one is in
\* flight the loading flag is true and no control of any tab that starts an
\* ingestion is enabled, whichever tab is shown.
C15_OneIngestionInFlight ==
  /\ Len(jobs) <= 1
  /\ jobs # <<>> =>
       /\ isLoading
       /\ \A tab \in Modes : ~ControlEnabled(tab)

\* A manual submission awaits its generation and the user has switched to
\* another tab meanwhile.
C15_Witness ==
  /\ Len(jobs) = 1
  /\ jobs[1].kind = "manual"
  /\ jobs[1].pc = "gen"
  /\ mode = "upload"
  /\ isLoading

-----------------------------------------------------------------------------
\* C16: the controls are never left disabled for good: whenever the
\* loading flag is true an ingestion action is still in flight, whose end
\* (success, failure or cancellation) sets the flag back to false.
C16_LoadingOnlyWhileInFlight == isLoading => jobs # <<>>

-----------------------------------------------------------------------------
-----------------------------------------------------------------------------
\* A step that handles a flip event.
FlipStep == flips'.n > 0 /\ flips' # flips

\* C18: a flip changes isFlipped and leaves the deck, the index of the
\* current card and the script mode as they are.
C18_FlipChangesOnlyFlipped ==
  [][FlipStep => /\ isFlipped' # isFlipped
                 /\ UNCHANGED <<deck, currentCardIndex, scriptMode>>]_vars

\* A card other than the first was flipped to its back in traditional script.
C18_Witness ==
  /\ flips.n = 1
  /\ isFlipped
  /\ currentCardIndex = 1
  /\ scriptMode = "traditional"
  /\ deck.t # "null"

-----------------------------------------------------------------------------
\* A step that handles a toggle of the script mode.
ToggleStep == toggles'.n > 0 /\ toggles' # toggles

\* C19: a toggle of the script mode switches scriptMode to the other of the
\* two modes, so that two toggles in a row restore it, and leaves the index
\* of the current card, the flip state and the deck as they are.
C19_ToggleSwitchesScriptOnly ==
  /\ [](/\ scriptMode \in {"simplified", "traditional"}
        /\ toggles.n = 1 => scriptMode # toggles.was
        /\ toggles.n = 2 => scriptMode = toggles.was)
  /\ [][ToggleStep => /\ scriptMode' # scriptMode
                      /\ UNCHANGED <<currentCardIndex, isFlipped, deck>>]_vars

\* Two toggles in a row that started from the traditional script, on the
\* back of a card other than the first.
C19_Witness ==
  /\ toggles.n = 2
  /\ toggles.was = "traditional"
  /\ scriptMode = "traditional"
  /\ isFlipped
  /\ currentCardIndex = 1
  /\ deck.t # "null"

-----------------------------------------------------------------------------
\* A step in which an ingestion action ends with a deck delivered.
DeliveryStep == last' # last /\ last'.decks # <<>>

\* C20: the step that delivers a deck leaves the session holding that deck,
\* with the index of the current card 0 and the front of the card shown,
\* whatever the session held before.
C20_DeliveryResetsSession ==
  [][DeliveryStep => /\ deck' = last'.decks[1]
                     /\ currentCardIndex' = 0
                     /\ isFlipped' = FALSE]_vars

\* A deck was delivered when the index was not 0 (an index update of the
\* deck before was still pending when that deck was left) and the script
\* mode was traditional.
C20_Witness ==
  /\ Len(last.decks) = 1
  /\ last.index # 0
  /\ deck = last.decks[1]
  /\ currentCardIndex = 0
  /\ ~isFlipped
  /\ scriptMode = "traditional"

-----------------------------------------------------------------------------
\* A card record of the canonical deck shape: the four text fields and a
\* list of examples.
HasCardFields(c) ==
  /\ c.t = "obj"
  /\ \A f \in {"simplified", "traditional", "pinyin", "english"} : Get(c, f).t = "str"
  /\ Get(c, "examples").t = "arr"

\* C21: a payload is imported without a generation request only if every
\* element of its cards list is a card record with simplified, traditional,
\* pinyin and english text and a list of examples, so that every card of a
\* directly imported deck has those fields.
C21_DirectImportIsSchemaValid ==
  DirectImport(last) =>
    /\ \A i \in DOMAIN CardsOf(Parsed(last.content)) : HasCardFields(CardsOf(Parsed(last.content))[i])
    /\ \A i \in DOMAIN CardsOf(last.decks[1]) : HasCardFields(CardsOf(last.decks[1])[i])

-----------------------------------------------------------------------------
\* What the review session holds, with its pending index updates.
session == <<deck, currentCardIndex, isFlipped, scriptMode, timers>>

\* C22: while a deck is loaded and the event is not aimed at a text field,
\* Space, ArrowUp and ArrowDown do what a flip does (isFlipped negated,
\* nothing else), ArrowRight what next does and ArrowLeft what previous does
\* (the front shown, one index update requested in that direction, nothing
\* else); a key aimed at a text field, any other key, and any key while no
\* deck is loaded change nothing of the session.
C22_KeyboardSurface ==
  [][\A code \in KeyCodes : \A target \in KeyTargets :
       HandleKeyDown(code, target) =>
         IF deck.t = "null" \/ target \in {"textarea", "input"}
         THEN UNCHANGED session
         ELSE CASE code \in {"Space", "ArrowUp", "ArrowDown"} ->
                     /\ isFlipped' = ~isFlipped
                     /\ UNCHANGED <<deck, currentCardIndex, scriptMode, timers>>
                [] code = "ArrowRight" ->
                     /\ isFlipped' = FALSE
                     /\ timers' = Append(timers, [dir |-> "next", len |-> NumCards])
                     /\ UNCHANGED <<deck, currentCardIndex, scriptMode>>
                [] code = "ArrowLeft" ->
                     /\ isFlipped' = FALSE
                     /\ timers' = Append(timers, [dir |-> "prev", len |-> NumCards])
                     /\ UNCHANGED <<deck, currentCardIndex, scriptMode>>
                [] OTHER -> UNCHANGED session]_vars

\* The keys have moved the session to the second card of a deck and flipped
\* it twice, with the card before asked for in between and still to come.
C22_Witness ==
  /\ NumCards = 2
  /\ currentCardIndex = 1
  /\ flips = [n |-> 2, was |-> FALSE]
  /\ timers = <<[dir |-> "prev", len |-> 2]>>
  /\ ~isFlipped

-----------------------------------------------------------------------------
\* C23: without a client id the Drive button is disabled and no Drive
\* action is ever started, so no authorization is requested; without an API
\* key every action that reached the generation service, and every Drive
\* action that ended, ended without a deck and with a non-empty error
\* message; and whenever an action has ended the loading flag is false, so
\* the controls of the tab shown are enabled again.
C23_OptionalConfiguration ==
  /\ ~env.clientId =>
       /\ ~DriveEnabled
       /\ last.kind # "drive"
       /\ \A j \in DOMAIN jobs : jobs[j].kind # "drive"
  /\ (~env.apiKey /\ (last.reqs # <<>> \/ last.kind = "drive")) =>
       /\ last.decks = <<>>
       /\ last.error.t = "str"
       /\ last.error.v # ""
  /\ ((~env.clientId \/ ~env.apiKey) /\ last.kind # "none") =>
       /\ ~isLoading
       /\ deck.t = "null" => ControlEnabled(mode)

\* Without an API key the picker could not be built: the Drive action ended
\* with the message about the key, and the upload tab is usable again.
C23_Witness ==
  /\ ~env.apiKey
  /\ last.kind = "drive"
  /\ last.error = Str(MsgApiKey)
  /\ error = Str(MsgApiKey)
  /\ ~isLoading
  /\ ControlEnabled("upload")

-----------------------------------------------------------------------------
\* C24: the deck generated for the list line with the user's own example
\* has one card whose example list is exactly that example, its Chinese text
\* as the user typed it.
C24_UserExampleIsKept ==
  (last.reqs = <<ExampleLineText>> /\ last.decks # <<>>) =>
    /\ Len(CardsOf(last.decks[1])) = 1
    /\ Len(ExamplesOf(CardsOf(last.decks[1])[1])) = 1
    /\ Get(ExamplesOf(CardsOf(last.decks[1])[1])[1], "simplified") = Str("wo ai chi pingguo")

-----------------------------------------------------------------------------
\* C25: for every deck-shaped payload the card mapping raises no error and
\* the deck is delivered; every card of it has a non-empty id and a list of
\* examples whose entries have string simplified and traditional text, and
\* the simplified, traditional, pinyin and english of the card are what the
\* payload's card had (nothing dropped, nothing added).
C25_NormalisationCompletesCards ==
  (Classified(last) /\ IsJson(last.content) /\ DeckShaped(Parsed(last.content))) =>
    /\ Len(last.decks) = 1
    /\ last.error = Null
    /\ LET src == CardsOf(Parsed(last.content))
           out == CardsOf(last.decks[1])
       IN /\ Len(out) = Len(src)
          /\ \A i \in DOMAIN out :
               /\ Get(out[i], "id").t = "str"
               /\ Get(out[i], "id").v # ""
               /\ Get(out[i], "examples").t = "arr"
               /\ \A j \in DOMAIN ExamplesOf(out[i]) :
                    /\ Get(ExamplesOf(out[i])[j], "simplified").t = "str"
                    /\ Get(ExamplesOf(out[i])[j], "traditional").t = "str"
               /\ \A f \in {"simplified", "traditional", "pinyin", "english"} :
                    Get(out[i], f) = Get(src[i], f)

-----------------------------------------------------------------------------
\* A step in which the classifier's call for job j ends: the job was about
\* to be classified or awaited the generation the classifier asked for.
ClassifierEnds(j) ==
  /\ Classifies(jobs[j])
  /\ jobs[j].pc \in {"read", "fetch", "gen"}
  /\ jobs' = RemoveAt(jobs, j)

\* C26: a call of the classifier ends in exactly one of two outcomes: one
\* deck is delivered to the session, once, and no error message is set; or
\* a non-empty error message is set and no deck is delivered.
C26_ClassifierSingleOutcome ==
  [][\A j \in DOMAIN jobs :
       ClassifierEnds(j) =>
         \/ /\ Len(last'.decks) = 1
            /\ deck' = last'.decks[1]
            /\ deck = Null
            /\ error' = Null
            /\ last'.error = Null
         \/ /\ last'.decks = <<>>
            /\ deck' = deck
            /\ error'.t = "str"
            /\ error'.v # ""
            /\ last'.error = error']_vars

\* The older classifier has ended on JSON that is no deck and no list of
\* strings: the message is set and no deck is held.
C26_Witness ==
  /\ last.via = "processJsonContent"
  /\ last.kind = "file"
  /\ last.content = Stringify(NoCardsObject)
  /\ last.error = Str(MsgInvalid)
  /\ error = Str(MsgInvalid)
  /\ last.decks = <<>>
  /\ deck = Null

-----------------------------------------------------------------------------
\* C27: whenever a deck is loaded the index of the current card is an
\* integer from 0 up to, and not including, the number of cards of the deck,
\* so that deck.cards[currentCardIndex] exists.
C27_IndexInRange ==
  deck.t # "null" => (currentCardIndex >= 0 /\ currentCardIndex < NumCards)

-----------------------------------------------------------------------------
\* C28: an index update requested by next or previous changes the index
\* only while the deck it was requested on is loaded: never while no deck is
\* loaded, and always computed with the card count of the deck loaded when
\* it takes effect.
C28_NoStaleNavigation ==
  [][(timers # <<>> /\ timers' = Tail(timers) /\ currentCardIndex' # currentCardIndex) =>
       /\ deck.t # "null"
       /\ Head(timers).len = NumCards
       /\ currentCardIndex' = IF Head(timers).dir = "next"
                              THEN NextIndex(currentCardIndex, NumCards)
                              ELSE PrevIndex(currentCardIndex, NumCards)]_vars

-----------------------------------------------------------------------------
\* C29: every text handed to generateDeckFromList, by a job in flight or by
\* the action that ended last, has a character that is not white space.
C29_NoEmptyGenerationRequest ==
  /\ \A j \in DOMAIN jobs : \A k \in DOMAIN jobs[j].reqs : ~IsBlank(jobs[j].reqs[k])
  /\ \A k \in DOMAIN last.reqs : ~IsBlank(last.reqs[k])

-----------------------------------------------------------------------------
\* C30: a deck imported without generation has the title of the payload,
\* as many cards as the payload and in its order, and for each card as many
\* examples as the payload's card and in its order: example by example the
\* english is the payload's and the simplified text is the payload's own or
\* its legacy text.
C30_ImportPreservesStructure ==
  DirectImport(last) =>
    LET src == Parsed(last.content)
        out == last.decks[1]
    IN /\ Get(out, "title") = Get(src, "title")
       /\ Len(CardsOf(out)) = Len(CardsOf(src))
       /\ \A i \in DOMAIN CardsOf(out) :
            /\ Get(CardsOf(out)[i], "simplified") = Get(CardsOf(src)[i], "simplified")
            /\ Len(ExamplesOf(CardsOf(out)[i])) = Len(ExamplesOf(CardsOf(src)[i]))
            /\ \A j \in DOMAIN ExamplesOf(CardsOf(out)[i]) :
                 LET o == ExamplesOf(CardsOf(out)[i])[j]
                     e == ExamplesOf(CardsOf(src)[i])[j]
                 IN /\ Get(o, "english") = Get(e, "english")
                    /\ Get(o, "simplified") \in {Get(e, "simplified"), Get(e, "chinese"), Str("")}

\* The deck of two cards, the second with two examples that differ, was
\* imported by processContent and is shown.
C30_Witness ==
  /\ DirectImport(last)
  /\ last.via = "processContent"
  /\ last.content = Stringify(TwoCardDeck)
  /\ deck = last.decks[1]
  /\ Len(ExamplesOf(CardsOf(deck)[2])) = 2

====
